---- MODULE Spec2Model ----
(***************************************************************************)
(* Model of the Vulkan HAL shim: the two builds of the interception layer  *)
(* (the vendor dma-buf build, src/unnamed/part_000, and the generic        *)
(* external-memory build, src/vulkan_hal.cpp).                             *)
(*                                                                         *)
(* The wrapped driver (namespace mesa_vulkan) is an external collaborator: *)
(* every call into it is modelled at its call site, its answer drawn from  *)
(* a small set.  Each entry point of the shim is one action; the record    *)
(* `last` holds the arguments, the calls made into the driver and the      *)
(* outputs of the most recent entry-point call.                            *)
(***************************************************************************)
EXTENDS Integers, Sequences, FiniteSets, TLC

VARIABLES
  variant,                 \* which build: "dmabuf" (part_000) or "generic" (vulkan_hal.cpp)
  dmabufFunc,              \* part_000 CreateImage: function-local static dmabufFunc
  init,                    \* part_000 EnumerateDeviceExtensionProperties: static bool init
  driver_extensions,       \* part_000: static pointer, 0 is NULL, else a heap block
  driver_extension_count,  \* part_000: static unsigned
  heap,                    \* blocks handed out by malloc, block p is heap[p]
  last,                    \* the most recent entry-point call
  pc,                      \* per thread: position inside EnumerateDeviceExtensionProperties
  frame,                   \* per thread: arguments and locals of its call
  hwdev                    \* the static mesa_vulkan_device, the driver behind it, the process

vars == <<variant, dmabufFunc, init, driver_extensions, driver_extension_count,
          heap, last, pc, frame, hwdev>>

Variants == {"dmabuf", "generic"}

Threads == {1, 2}

(***************************************************************************)
(* Addresses of functions.                                                 *)
(***************************************************************************)
nullptr == <<"null", "">>

\* the address of one of the shim's own static functions
Shim(fn) == <<"hal", fn>>

\* the address the driver's resolver hands out for `name`, when it knows it
DriverAddr(name) == <<"driver", name>>

\* what a driver resolver may answer for `name`
DriverAnswers(name) == {nullptr, DriverAddr(name)}

\* The module before the loader opens it: the driver not initialised, the
\* static descriptor mesa_vulkan_device intact, nothing handed to delete.
ModuleLoaded ==
  [driver |-> "uninitialized", descriptor |-> "valid", deleted |-> {},
   held |-> FALSE, crashed |-> FALSE, calls |-> 0]

\* the statics of both builds before the first call
StaticsInit ==
  /\ hwdev = ModuleLoaded
  /\ dmabufFunc = "uninitialized"
  /\ init = FALSE
  /\ driver_extensions = 0
  /\ driver_extension_count = 0
  /\ heap = <<>>

NoCall == [op |-> "none"]

ThreadsIdle ==
  /\ pc = [t \in Threads |-> "idle"]
  /\ frame = [t \in Threads |-> [op |-> "none"]]

statics == <<dmabufFunc, init, driver_extensions, driver_extension_count, heap>>
threads == <<pc, frame>>

(***************************************************************************)
(* Entry-point resolvers.                                                  *)
(***************************************************************************)
DeviceNames ==
  {"vkCreateImage", "vkGetSwapchainGrallocUsageANDROID", "vkAcquireImageANDROID",
   "vkQueueSignalReleaseImageANDROID", "vkCreateDmaBufImageINTEL",
   "vkAllocateMemory", "vkBindImageMemory", "vkCmdDraw"}

InstanceNames ==
  {"vkEnumerateDeviceExtensionProperties", "vkCreateDevice", "vkGetDeviceProcAddr",
   "vkCreateInstance", "vkEnumeratePhysicalDevices", "vkCreateImage"}

Devices == {"dev1", "dev2"}
Instances == {"NULL", "inst1"}

\* GetDeviceProcAddr, both builds; drv is what
\* mesa_vulkan::vkGetDeviceProcAddr(device, name) returns
DeviceProcAddr(name, drv) ==
  IF name = "vkCreateImage" THEN Shim("CreateImage")
  ELSE IF drv # nullptr THEN drv
  ELSE IF name = "vkGetSwapchainGrallocUsageANDROID"
         THEN Shim("GetSwapchainGrallocUsageANDROID")
  ELSE IF name = "vkAcquireImageANDROID" THEN Shim("AcquireImageANDROID")
  ELSE IF name = "vkQueueSignalReleaseImageANDROID"
         THEN Shim("QueueSignalReleaseImageANDROID")
  ELSE nullptr

\* a resolver that asks the driver before its own table
InstanceProcAddrDriverFirst(v, name, drv) ==
  IF drv # nullptr THEN drv
  ELSE IF v = "dmabuf" /\ name = "vkEnumerateDeviceExtensionProperties"
         THEN Shim("EnumerateDeviceExtensionProperties")
  ELSE IF v = "dmabuf" /\ name = "vkCreateDevice" THEN Shim("CreateDevice")
  ELSE IF name = "vkGetDeviceProcAddr" THEN Shim("GetDeviceProcAddr")
  ELSE nullptr

\* GetInstanceProcAddr of build v; drv is what
\* mesa_vulkan::vkGetInstanceProcAddr(instance, name) returns
InstanceProcAddr(v, name, drv) ==
  IF v = "dmabuf" /\ name = "vkEnumerateDeviceExtensionProperties"
    THEN Shim("EnumerateDeviceExtensionProperties")
  ELSE IF v = "dmabuf" /\ name = "vkCreateDevice" THEN Shim("CreateDevice")
  ELSE IF name = "vkGetDeviceProcAddr" THEN Shim("GetDeviceProcAddr")
  ELSE IF drv # nullptr THEN drv
  ELSE nullptr

GetDeviceProcAddr ==
  \E device \in Devices, name \in DeviceNames :
    \E drv \in DriverAnswers(name) :
      /\ last' = [op |-> "GetDeviceProcAddr", device |-> device, name |-> name,
                  drv |-> drv, ret |-> DeviceProcAddr(name, drv)]
      /\ UNCHANGED <<hwdev, variant, statics, threads>>

GetInstanceProcAddr ==
  \E instance \in Instances, name \in InstanceNames :
    \E drv \in DriverAnswers(name) :
      /\ last' = [op |-> "GetInstanceProcAddr", instance |-> instance,
                  name |-> name, drv |-> drv,
                  ret |-> InstanceProcAddr(variant, name, drv)]
      /\ UNCHANGED <<hwdev, variant, statics, threads>>

InitResolve ==
  /\ variant \in Variants
  /\ StaticsInit
  /\ ThreadsIdle
  /\ last = NoCall

NextResolve == GetDeviceProcAddr \/ GetInstanceProcAddr

SpecResolve == InitResolve /\ [][NextResolve]_vars

\* the four names the device-level resolver has a local shim for
DeviceShim(name) ==
  CASE name = "vkCreateImage" -> Shim("CreateImage")
    [] name = "vkGetSwapchainGrallocUsageANDROID"
         -> Shim("GetSwapchainGrallocUsageANDROID")
    [] name = "vkAcquireImageANDROID" -> Shim("AcquireImageANDROID")
    [] name = "vkQueueSignalReleaseImageANDROID"
         -> Shim("QueueSignalReleaseImageANDROID")
    [] OTHER -> nullptr

InterceptedDeviceNames ==
  {"vkCreateImage", "vkGetSwapchainGrallocUsageANDROID", "vkAcquireImageANDROID",
   "vkQueueSignalReleaseImageANDROID"}

\* C1: for each of the four intercepted device-level names, GetDeviceProcAddr
\* returns the local shim and never the driver's address, whatever the
\* driver's own device-level resolver returns for that name.
C1_DeviceShimAlwaysWins ==
  (last.op = "GetDeviceProcAddr" /\ last.name \in InterceptedDeviceNames)
    => last.ret = DeviceShim(last.name)

\* the three instance-level names the spec lists as locally shimmed
InstanceShim(name) ==
  CASE name = "vkEnumerateDeviceExtensionProperties"
         -> Shim("EnumerateDeviceExtensionProperties")
    [] name = "vkCreateDevice" -> Shim("CreateDevice")
    [] name = "vkGetDeviceProcAddr" -> Shim("GetDeviceProcAddr")
    [] OTHER -> nullptr

ShimmedInstanceNames ==
  {"vkEnumerateDeviceExtensionProperties", "vkCreateDevice", "vkGetDeviceProcAddr"}

\* the instance-level names build v has a local shim for
ShimmedIn(v) ==
  IF v = "dmabuf" THEN ShimmedInstanceNames ELSE {"vkGetDeviceProcAddr"}

\* C2 as stated: in every build GetInstanceProcAddr returns the local shim for
\* each of the three names and the driver's answer for every other name.
C2_InstancePolicyAllBuilds ==
  last.op = "GetInstanceProcAddr" =>
    IF last.name \in ShimmedInstanceNames
      THEN last.ret = InstanceShim(last.name)
      ELSE last.ret = last.drv

\* C2 amended: GetInstanceProcAddr returns the local shim for the names its
\* build shims (all three in the dma-buf build, only vkGetDeviceProcAddr in
\* the generic build), whatever the driver answers; for every other name it
\* returns exactly the driver's answer, null included.
C2_InstancePolicyPerBuild ==
  last.op = "GetInstanceProcAddr" =>
    IF last.name \in ShimmedIn(variant)
      THEN last.ret = InstanceShim(last.name)
      ELSE last.ret = last.drv

\* a shimmed name resolved against a driver that defines it, and a forwarded
\* name the driver does not know
C2_Witness ==
  /\ last.op = "GetInstanceProcAddr"
  /\ last.name = "vkCreateDevice"
  /\ last.drv = DriverAddr("vkCreateDevice")
  /\ variant = "dmabuf"
  /\ last.ret = Shim("CreateDevice")

(***************************************************************************)
(* Device-extension enumeration (dma-buf build only).                      *)
(***************************************************************************)
\* static struct VkExtensionProperties hal_extensions[]
hal_extensions ==
  << [extensionName |-> "VK_ANDROID_native_buffer", specVersion |-> 1] >>

\* sizeof(hal_extensions) / sizeof(struct VkExtensionProperties)
amount == Len(hal_extensions)

\* the longest extension list the driver reports
MaxDriverExt == 2

\* how many different lists of one length the driver may report over time
DriverGenerations == 2

DriverExtNames ==
  <<"VK_KHR_swapchain", "VK_KHR_maintenance1", "VK_KHR_push_descriptor",
    "VK_KHR_external_memory", "VK_KHR_external_memory_fd",
    "VK_KHR_sampler_mirror_clamp_to_edge", "VK_KHR_shader_draw_parameters">>

\* the driver's own list: n entries, generation g
DriverList(n, g) ==
  [i \in 1..n |-> [extensionName |-> DriverExtNames[i + g - 1], specVersion |-> g]]

DriverLists == {DriverList(n, g) : n \in 0..MaxDriverExt, g \in 1..DriverGenerations}

\* the largest capacity a caller passes in *pPropertyCount
MaxCap == MaxDriverExt + amount + 1

\* an entry of the caller's buffer the caller has not filled in
Junk == [extensionName |-> "", specVersion |-> 0]

CallerBuffer(cap) == [i \in 1..cap |-> Junk]

Min(a, b) == IF a <= b THEN a ELSE b

DriverModes == {"ok", "fail"}

\* mesa_vulkan::vkEnumerateDeviceExtensionProperties as the Vulkan API defines
\* it.  With no buffer it reports its count; with a buffer of cap entries it
\* fills what fits, reports how many it wrote and returns VK_INCOMPLETE when
\* not all fitted.  A failing driver touches neither output.
DriverEnumerate(list, mode, isNull, cap, buf) ==
  IF mode = "fail"
    THEN [res |-> "VK_ERROR_OUT_OF_HOST_MEMORY", count |-> cap, buf |-> buf]
  ELSE IF isNull
    THEN [res |-> "VK_SUCCESS", count |-> Len(list), buf |-> buf]
  ELSE [res |-> IF cap >= Len(list) THEN "VK_SUCCESS" ELSE "VK_INCOMPLETE",
        count |-> Min(cap, Len(list)),
        buf |-> [i \in 1..cap |-> IF i <= Len(list) THEN list[i] ELSE buf[i]]]

\* a check that lets the positive status VK_INCOMPLETE through
DriverFailedOnErrorOnly(res) == res \notin {"VK_SUCCESS", "VK_INCOMPLETE"}

\* if (res != VK_SUCCESS) return res;
DriverFailed(res) == res # "VK_SUCCESS"

\* a destination that forgets to step back over the injected entries
InjectIndexPastCount(count, i) == count + i

\* dst += (*pPropertyCount - amount); entry i of hal_extensions (1-based) goes
\* to this 1-based index of the caller's buffer
InjectIndex(count, i) == count - amount + i

\* the entries the injection loop writes outside a buffer of cap entries
OutOfBounds(count, cap) == {i \in 1..amount : InjectIndex(count, i) > cap}

\* the caller's buffer after the injection loop (strcpy of the name, copy of
\* the version), for the entries that land inside it
Inject(buf, count, cap) ==
  [k \in 1..cap |->
     IF \E i \in 1..amount : InjectIndex(count, i) = k
       THEN hal_extensions[CHOOSE i \in 1..amount : InjectIndex(count, i) = k]
       ELSE buf[k]]

\* memcpy(driver_extensions, pProperties, driver_extension_count * sizeof ...)
SnapshotOf(buf, n) == [i \in 1..n |-> buf[i]]

\* Where a write past the end of the caller's buffer lands is not defined:
\* 0 is memory this model does not follow, j > 0 is entry j of the snapshot
\* block, which malloc may have placed behind the caller's buffer.
Landings(snapshot) == 0..Len(snapshot)

\* the snapshot block after the out-of-bounds entries landed at `land`
Clobber(snapshot, land, oob) ==
  IF land = 0 \/ oob = {} THEN snapshot
  ELSE [j \in 1..Len(snapshot) |->
          IF \E i \in oob : land + (i - CHOOSE m \in oob : \A o \in oob : m <= o) = j
            THEN hal_extensions[CHOOSE i \in oob :
                   land + (i - CHOOSE m \in oob : \A o \in oob : m <= o) = j]
            ELSE snapshot[j]]

Statics ==
  [init |-> init, ptr |-> driver_extensions, count |-> driver_extension_count,
   heap |-> heap]

\* the previous call was a successful count query for the same driver list and
\* this call passes the count it produced
FollowsPhase1(list, isNull, cap) ==
  /\ ~isNull
  /\ last.op = "EnumerateDeviceExtensionProperties"
  /\ last.null
  /\ last.ret = "VK_SUCCESS"
  /\ last.list = list
  /\ last.count = cap

EnumerateDeviceExtensionProperties ==
  /\ variant = "dmabuf"
  /\ \E list \in DriverLists, mode \in DriverModes, isNull \in BOOLEAN,
        cap \in 0..MaxCap :
       LET buf0 == IF isNull THEN <<>> ELSE CallerBuffer(cap)
           d == DriverEnumerate(list, mode, isNull, cap, buf0)
           call == [op |-> "EnumerateDeviceExtensionProperties", null |-> isNull,
                    list |-> list, mode |-> mode, cap |-> cap, drv |-> d,
                    pre |-> Statics, after1 |-> FollowsPhase1(list, isNull, cap)]
           count == d.count + amount
           first == ~init
           p == IF first THEN Len(heap) + 1 ELSE driver_extensions
           n == IF first THEN count - amount ELSE driver_extension_count
           heap1 == IF first THEN Append(heap, SnapshotOf(d.buf, n)) ELSE heap
           oob == OutOfBounds(count, cap)
       IN IF DriverFailed(d.res)
            THEN /\ last' = call @@ [ret |-> d.res, count |-> d.count, buf |-> d.buf,
                                     written |-> {}, oob |-> {}]
                 /\ UNCHANGED statics
          ELSE IF isNull
            THEN /\ last' = call @@ [ret |-> d.res, count |-> count, buf |-> d.buf,
                                     written |-> {}, oob |-> {}]
                 /\ UNCHANGED statics
          ELSE \E land \in (IF oob = {} \/ p = 0 THEN {0} ELSE Landings(heap1[p])) :
                 /\ init' = TRUE
                 /\ driver_extension_count' = n
                 /\ driver_extensions' = p
                 /\ heap' = IF p = 0 THEN heap1
                            ELSE [heap1 EXCEPT ![p] = Clobber(@, land, oob)]
                 /\ dmabufFunc' = dmabufFunc
                 /\ last' = call @@ [ret |-> d.res, count |-> count,
                                     buf |-> Inject(d.buf, count, cap),
                                     written |-> {InjectIndex(count, i) : i \in 1..amount},
                                     oob |-> oob]
  /\ UNCHANGED <<hwdev, variant, threads>>

InitEnum ==
  /\ variant = "dmabuf"
  /\ StaticsInit
  /\ ThreadsIdle
  /\ last = NoCall

NextEnum == EnumerateDeviceExtensionProperties

SpecEnum == InitEnum /\ [][NextEnum]_vars

IsEnum == last.op = "EnumerateDeviceExtensionProperties"

\* C3: a count query (null buffer) returns the driver's result, reports the
\* driver's count plus the injected count and writes no entry; a call with a
\* buffer of exactly that capacity returns success, leaves the count there,
\* and the buffer holds the driver's entries followed by hal_extensions.
C3_TwoPhaseEnumeration ==
  IsEnum =>
    /\ last.null =>
         /\ last.ret = last.drv.res
         /\ last.written = {}
         /\ last.mode = "ok" =>
              (last.ret = "VK_SUCCESS" /\ last.count = Len(last.list) + amount)
    /\ (~last.null /\ last.mode = "ok" /\ last.cap = Len(last.list) + amount) =>
         /\ last.ret = "VK_SUCCESS"
         /\ last.count = Len(last.list) + amount
         /\ last.buf = last.list \o hal_extensions

\* a buffer call that follows a count query and uses the count it reported
C3_Witness ==
  /\ IsEnum
  /\ last.after1
  /\ last.mode = "ok"
  /\ Len(last.list) = MaxDriverExt
  /\ last.buf = last.list \o hal_extensions

\* C4: when the driver's enumeration does not return success, the shim
\* returns that result, leaves the count as the driver left it, writes no
\* injected entry and leaves the latch and the snapshot as they were.
C4_FailurePassedThrough ==
  (IsEnum /\ last.drv.res # "VK_SUCCESS") =>
    /\ last.ret = last.drv.res
    /\ last.count = last.drv.count
    /\ last.written = {}
    /\ last.buf = last.drv.buf
    /\ Statics = last.pre

\* the driver filled a short buffer and returned VK_INCOMPLETE
C4_Witness ==
  /\ IsEnum
  /\ ~last.null
  /\ last.drv.res = "VK_INCOMPLETE"
  /\ last.cap >= 1
  /\ last.ret = "VK_INCOMPLETE"

\* the driver's entries of the most recent call
DriverEntries == SnapshotOf(last.drv.buf, last.drv.count)

\* C5: the snapshot is populated by the first successful buffer call with the
\* driver's entries of that call, and no other call changes its contents, its
\* count or its allocation.
C5_SnapshotTakenOnce ==
  IsEnum =>
    IF last.pre.init
      THEN Statics = last.pre
    ELSE IF ~last.null /\ last.ret = "VK_SUCCESS"
      THEN /\ init
           /\ driver_extensions # 0
           /\ driver_extension_count = last.drv.count
           /\ heap[driver_extensions] = DriverEntries
      ELSE Statics = last.pre

(***************************************************************************)
(* Foreign-buffer image import: CreateImage of both builds.                *)
(***************************************************************************)
\* while (p && p->sType != 1000010000)
NativeBufferTag == 1000010000

\* the longest extension chain hanging off pCreateInfo->pNext
MaxChain == 2

\* the largest extent.height a caller asks for
MaxHeight == 2

Fds == {3, 4}
Strides == {1, 2}

\* A chain element: its structure-type tag and, for a VkNativeBufferANDROID,
\* the file descriptor behind handle->data[0] and the stride.
NativeBuffers ==
  {[sType |-> NativeBufferTag, fd |-> 3, stride |-> 1],
   [sType |-> NativeBufferTag, fd |-> 4, stride |-> 2]}

\* an extension struct of another type; it has no handle and no stride
OtherStruct == [sType |-> 1000001000, fd |-> -1, stride |-> -1]

ChainElems == NativeBuffers \cup {OtherStruct}

\* the chains a caller may hang off the creation-info; <<>> is pNext == NULL
Chains == UNION {[1..n -> ChainElems] : n \in 0..MaxChain}

\* The walk of the chain: the index of the first element carrying the
\* native-buffer tag from position i on, 0 when p runs off the end.
RECURSIVE Walk(_, _)
Walk(chain, i) ==
  IF i > Len(chain) THEN 0
  ELSE IF chain[i].sType = NativeBufferTag THEN i
  ELSE Walk(chain, i + 1)

\* What reading elem through a VkNativeBufferANDROID pointer yields: the
\* element's own handle and stride when it is one, and whatever bytes sit at
\* those offsets when it is a struct of another type.
ReadAsNativeBuffer(elem) ==
  IF elem.sType = NativeBufferTag
    THEN {[fd |-> elem.fd, stride |-> elem.stride]}
    ELSE [fd : Fds, stride : Strides]

\* buffer = reinterpret_cast<const VkNativeBufferANDROID*>(pCreateInfo->pNext)
BufferOf(chain) == chain[1]

DriverResults ==
  {"VK_SUCCESS", "VK_ERROR_OUT_OF_HOST_MEMORY", "VK_ERROR_OUT_OF_DEVICE_MEMORY"}

DriverCall(fn, arg, ret) == [fn |-> fn, arg |-> arg, ret |-> ret]

\* uint32_t fd_size = buffer->stride * 4 * pCreateInfo->extent.height; the
\* strides and heights drawn here keep the product far below 2^32
AllocateCall(b, height, r) ==
  DriverCall("vkAllocateMemory",
             [allocationSize |-> b.stride * 4 * height, memoryTypeIndex |-> 0,
              pNext |-> [sType |-> "VK_STRUCTURE_TYPE_IMPORT_MEMORY_FD_INFO_KHX",
                         fd |-> b.fd]],
             r)

CreateCall(height, r) ==
  DriverCall("vkCreateImage",
             [imageType |-> "VK_IMAGE_TYPE_2D", height |-> height, depth |-> 1,
              mipLevels |-> 1, arrayLayers |-> 1,
              tiling |-> "VK_IMAGE_TILING_OPTIMAL"],
             r)

BindCall(r) ==
  DriverCall("vkBindImageMemory",
             [image |-> "*pImage", memory |-> "mem", memoryOffset |-> 0], r)

\* an import that binds even when the image was not created
GenericImportNoCreateCheck(b, height, r1, r2, r3) ==
  IF r1 # "VK_SUCCESS"
    THEN [calls |-> <<AllocateCall(b, height, r1)>>, ret |-> r1]
  ELSE [calls |-> <<AllocateCall(b, height, r1), CreateCall(height, r2), BindCall(r3)>>,
        ret |-> r3]

\* vulkan_hal.cpp CreateImage from "import memory from dma buf" on: the calls
\* made into the driver and the result, r1, r2, r3 being what the driver
\* returns from vkAllocateMemory, vkCreateImage and vkBindImageMemory
GenericImport(b, height, r1, r2, r3) ==
  IF r1 # "VK_SUCCESS"
    THEN [calls |-> <<AllocateCall(b, height, r1)>>, ret |-> r1]
  ELSE IF r2 # "VK_SUCCESS"
    THEN [calls |-> <<AllocateCall(b, height, r1), CreateCall(height, r2)>>,
          ret |-> r2]
  ELSE [calls |-> <<AllocateCall(b, height, r1), CreateCall(height, r2), BindCall(r3)>>,
        ret |-> r3]

\* part_000 CreateImage from dmabufInfo on: the one vendor call
DmaBufImport(b, height, r) ==
  [calls |-> <<DriverCall("vkCreateDmaBufImageINTEL",
                          [fd |-> b.fd, height |-> height,
                           strideInBytes |-> b.stride * 4], r)>>,
   ret |-> r]

\* the call CreateImage of vulkan_hal.cpp
CreateImageGeneric ==
  /\ variant = "generic"
  /\ \E chain \in Chains, height \in 1..MaxHeight :
       LET call == [op |-> "CreateImage", chain |-> chain, height |-> height,
                    first |-> FALSE]
       IN IF chain = <<>> \/ Walk(chain, 1) = 0
            THEN last' = call @@ [calls |-> <<>>,
                                  ret |-> "VK_ERROR_EXTENSION_NOT_PRESENT"]
            ELSE \E b \in ReadAsNativeBuffer(BufferOf(chain)),
                    r1 \in DriverResults, r2 \in DriverResults, r3 \in DriverResults :
                   last' = call @@ [buffer |-> b] @@ GenericImport(b, height, r1, r2, r3)
  /\ UNCHANGED <<hwdev, variant, statics, threads>>

\* the call CreateImage of part_000
CreateImageDmaBuf ==
  /\ variant = "dmabuf"
  /\ \E chain \in Chains, height \in 1..MaxHeight :
     \E found \in DriverAnswers("vkCreateDmaBufImageINTEL") :
       LET first == dmabufFunc = "uninitialized"
           func == IF first THEN found ELSE dmabufFunc
           lookup == IF first
                       THEN <<DriverCall("vkGetDeviceProcAddr",
                                         [name |-> "vkCreateDmaBufImageINTEL"], found)>>
                       ELSE <<>>
           call == [op |-> "CreateImage", chain |-> chain, height |-> height,
                    first |-> first]
       IN /\ dmabufFunc' = func
          /\ IF func = nullptr \/ chain = <<>> \/ Walk(chain, 1) = 0
               THEN last' = call @@ [calls |-> lookup,
                                     ret |-> "VK_ERROR_EXTENSION_NOT_PRESENT"]
               ELSE \E b \in ReadAsNativeBuffer(BufferOf(chain)), r \in DriverResults :
                      LET import == DmaBufImport(b, height, r)
                      IN last' = call @@ [buffer |-> b, calls |-> lookup \o import.calls,
                                          ret |-> import.ret]
  /\ UNCHANGED <<hwdev, variant, init, driver_extensions, driver_extension_count, heap, threads>>

InitImage ==
  /\ variant \in Variants
  /\ StaticsInit
  /\ ThreadsIdle
  /\ last = NoCall

NextImage == CreateImageGeneric \/ CreateImageDmaBuf

SpecImage == InitImage /\ [][NextImage]_vars

IsCreateImage == last.op = "CreateImage"

\* C6: a CreateImage call whose creation-info has a null pNext returns
\* "extension not present" and makes no call into the driver, not even a
\* resolver lookup, in both builds and also on the first call of the process.
C6_NullChainNoDriverCall ==
  (IsCreateImage /\ last.chain = <<>>) =>
    /\ last.ret = "VK_ERROR_EXTENSION_NOT_PRESENT"
    /\ last.calls = <<>>

\* the driver calls of the last CreateImage that carry a handle and a stride
ImportCalls ==
  {i \in 1..Len(last.calls) :
     last.calls[i].fn \in {"vkAllocateMemory", "vkCreateDmaBufImageINTEL"}}

\* C9: the handle and stride passed to the driver are those of the first
\* chain element tagged as a native buffer, wherever it sits; with no such
\* element the call returns "extension not present" and makes no
\* allocation, image-creation or vendor create-image call.
C9_BufferIsTaggedElement ==
  IsCreateImage =>
    IF Walk(last.chain, 1) = 0
      THEN /\ last.ret = "VK_ERROR_EXTENSION_NOT_PRESENT"
           /\ \A i \in 1..Len(last.calls) :
                last.calls[i].fn \notin
                  {"vkAllocateMemory", "vkCreateImage", "vkCreateDmaBufImageINTEL"}
      ELSE \A i \in ImportCalls :
             LET nb == last.chain[Walk(last.chain, 1)]
                 c == last.calls[i]
             IN IF c.fn = "vkAllocateMemory"
                  THEN /\ c.arg.pNext.fd = nb.fd
                       /\ c.arg.allocationSize = nb.stride * 4 * last.height
                  ELSE /\ c.arg.fd = nb.fd
                       /\ c.arg.strideInBytes = nb.stride * 4

\* the last call was a generic-build CreateImage that got past the chain walk
GenericImported ==
  IsCreateImage /\ variant = "generic" /\ Walk(last.chain, 1) # 0

\* C10: the generic import calls vkAllocateMemory (import descriptor chained
\* in, size stride*4*height), then vkCreateImage, then vkBindImageMemory at
\* offset zero, each only after the one before returned success; the first
\* failing call's result is returned unchanged with no further driver call
\* and no free or destroy; when all three succeed the result is success.
C10_GenericImportOrder ==
  GenericImported =>
    LET c == last.calls
        n == Len(c)
        Ok(i) == c[i].ret = "VK_SUCCESS"
    IN /\ n \in 1..3
       /\ c[1].fn = "vkAllocateMemory"
       /\ c[1].arg.allocationSize = last.buffer.stride * 4 * last.height
       /\ c[1].arg.pNext.fd = last.buffer.fd
       /\ n >= 2 => (Ok(1) /\ c[2].fn = "vkCreateImage")
       /\ n >= 3 => (Ok(2) /\ c[3].fn = "vkBindImageMemory"
                     /\ c[3].arg.memoryOffset = 0)
       /\ n < 3 => ~Ok(n)
       /\ last.ret = c[n].ret
       /\ \A i \in 1..n : c[i].fn \notin {"vkFreeMemory", "vkDestroyImage"}
       /\ (\A i \in 1..n : Ok(i)) => (n = 3 /\ last.ret = "VK_SUCCESS")

\* an import stopped by a failing vkCreateImage after a successful allocation
C10_Witness ==
  /\ GenericImported
  /\ Len(last.calls) = 2
  /\ last.calls[1].ret = "VK_SUCCESS"
  /\ last.ret = "VK_ERROR_OUT_OF_DEVICE_MEMORY"

(***************************************************************************)
(* GetSwapchainGrallocUsageANDROID (identical in both builds).  A flag     *)
(* mask is the set of the bits it holds: & is intersection, | is union.    *)
(***************************************************************************)
ImageUsageBits ==
  {"TRANSFER_SRC", "TRANSFER_DST", "SAMPLED", "STORAGE", "COLOR_ATTACHMENT",
   "DEPTH_STENCIL_ATTACHMENT", "TRANSIENT_ATTACHMENT", "INPUT_ATTACHMENT"}

usageSrc == {"TRANSFER_SRC", "SAMPLED", "STORAGE", "INPUT_ATTACHMENT"}

usageDst == {"TRANSFER_DST", "COLOR_ATTACHMENT"}

\* the bits *grallocUsage may hold when the call is made
GrallocBits == {"HW_TEXTURE", "HW_RENDER", "HW_COMPOSER"}

\* *grallocUsage after the two if statements
GrallocUsage(usage, prior) ==
  LET afterSrc == IF usage \cap usageSrc # {} THEN prior \cup {"HW_TEXTURE"} ELSE prior
  IN IF usage \cap usageDst # {} THEN afterSrc \cup {"HW_RENDER"} ELSE afterSrc

GetSwapchainGrallocUsageANDROID ==
  /\ \E usage \in SUBSET ImageUsageBits, prior \in SUBSET GrallocBits :
       last' = [op |-> "GetSwapchainGrallocUsageANDROID", usage |-> usage,
                prior |-> prior, grallocUsage |-> GrallocUsage(usage, prior),
                ret |-> "VK_SUCCESS"]
  /\ UNCHANGED <<hwdev, variant, statics, threads>>

InitGralloc ==
  /\ variant \in Variants
  /\ StaticsInit
  /\ ThreadsIdle
  /\ last = NoCall

NextGralloc == GetSwapchainGrallocUsageANDROID

SpecGralloc == InitGralloc /\ [][NextGralloc]_vars

\* C7: after GetSwapchainGrallocUsageANDROID, whatever the output held
\* before, its hardware-texture bit is set exactly when the usage mask holds
\* a source-side bit and its hardware-render bit exactly when the mask holds
\* transfer-dst or color-attachment; the call returns success.
C7_GrallocBitsFollowUsage ==
  last.op = "GetSwapchainGrallocUsageANDROID" =>
    /\ last.ret = "VK_SUCCESS"
    /\ ("HW_TEXTURE" \in last.grallocUsage) <=> (last.usage \cap usageSrc # {})
    /\ ("HW_RENDER" \in last.grallocUsage) <=> (last.usage \cap usageDst # {})

(***************************************************************************)
(* Two threads inside the buffer path of                                   *)
(* EnumerateDeviceExtensionProperties, one step per access to the statics. *)
(* Nothing orders the accesses, so a thread may use the value it just      *)
(* stored or the value now in the static.                                  *)
(***************************************************************************)
\* Lines 179-196: the driver fills this thread's own buffer, reports success,
\* and the count grows by amount.
RaceEnter(t) ==
  /\ pc[t] = "idle"
  /\ \E list \in DriverLists :
       LET cap == Len(list) + amount
           d == DriverEnumerate(list, "ok", FALSE, cap, CallerBuffer(cap))
       IN frame' = [frame EXCEPT ![t] =
                      [op |-> "EnumerateDeviceExtensionProperties", list |-> list,
                       cap |-> cap, buf |-> d.buf, count |-> d.count + amount,
                       sawInit |-> FALSE, stored |-> FALSE, p |-> 0,
                       overflow |-> FALSE]]
  /\ pc' = [pc EXCEPT ![t] = "latch"]
  /\ UNCHANGED <<hwdev, variant, statics, last>>

\* line 200: if (!init)
RaceTestLatch(t) ==
  /\ pc[t] = "latch"
  /\ frame' = [frame EXCEPT ![t].sawInit = init]
  /\ pc' = [pc EXCEPT ![t] = IF init THEN "inject" ELSE "set"]
  /\ UNCHANGED <<hwdev, variant, statics, last>>

\* line 201: init = true
RaceSetLatch(t) ==
  /\ pc[t] = "set"
  /\ init' = TRUE
  /\ pc' = [pc EXCEPT ![t] = "count"]
  /\ UNCHANGED <<hwdev, variant, dmabufFunc, driver_extensions, driver_extension_count,
                 heap, last, frame>>

\* line 203: driver_extension_count = *pPropertyCount - amount
RaceStoreCount(t) ==
  /\ pc[t] = "count"
  /\ driver_extension_count' = frame[t].count - amount
  /\ frame' = [frame EXCEPT ![t].stored = TRUE]
  /\ pc' = [pc EXCEPT ![t] = "malloc"]
  /\ UNCHANGED <<hwdev, variant, dmabufFunc, init, driver_extensions, heap, last>>

\* an allocation that keeps a block another call already published
RaceMallocIfNull(t) ==
  /\ pc[t] = "malloc"
  /\ IF driver_extensions # 0
       THEN /\ frame' = [frame EXCEPT ![t].p = driver_extensions]
            /\ UNCHANGED <<driver_extensions, heap>>
       ELSE /\ heap' = Append(heap, [i \in 1..(frame[t].count - amount) |-> Junk])
            /\ driver_extensions' = Len(heap) + 1
            /\ frame' = [frame EXCEPT ![t].p = Len(heap) + 1]
  /\ pc' = [pc EXCEPT ![t] = "memcpy"]
  /\ UNCHANGED <<hwdev, variant, dmabufFunc, init, driver_extension_count, last>>

\* lines 205-206: driver_extensions = malloc(driver_extension_count * sizeof ...)
RaceMalloc(t) ==
  /\ pc[t] = "malloc"
  /\ \E n \in {frame[t].count - amount, driver_extension_count} :
       /\ heap' = Append(heap, [i \in 1..n |-> Junk])
       /\ driver_extensions' = Len(heap) + 1
       /\ frame' = [frame EXCEPT ![t].p = Len(heap) + 1]
  /\ pc' = [pc EXCEPT ![t] = "memcpy"]
  /\ UNCHANGED <<hwdev, variant, dmabufFunc, init, driver_extension_count, last>>

\* line 208: memcpy(driver_extensions, pProperties, driver_extension_count * ...)
\* Entries read past the caller's buffer are junk; entries past the end of the
\* destination block are a heap overflow.
RaceMemcpy(t) ==
  /\ pc[t] = "memcpy"
  /\ \E dst \in {frame[t].p, driver_extensions},
        n \in {frame[t].count - amount, driver_extension_count} :
       /\ heap' = [heap EXCEPT ![dst] =
                     [i \in 1..Len(@) |->
                        IF i > n THEN @[i]
                        ELSE IF i <= frame[t].cap THEN frame[t].buf[i]
                        ELSE Junk]]
       /\ frame' = [frame EXCEPT ![t].overflow = n > Len(heap[dst])]
  /\ pc' = [pc EXCEPT ![t] = "inject"]
  /\ UNCHANGED <<hwdev, variant, dmabufFunc, init, driver_extensions,
                 driver_extension_count, last>>

\* lines 220-240: the injection loop and the return
RaceInject(t) ==
  /\ pc[t] = "inject"
  /\ frame' = [frame EXCEPT ![t].buf = Inject(@, frame[t].count, frame[t].cap)]
  /\ pc' = [pc EXCEPT ![t] = "done"]
  /\ UNCHANGED <<hwdev, variant, statics, last>>

InitRace ==
  /\ variant = "dmabuf"
  /\ StaticsInit
  /\ ThreadsIdle
  /\ last = NoCall

NextRace ==
  \E t \in Threads :
    \/ RaceEnter(t)
    \/ RaceTestLatch(t)
    \/ RaceSetLatch(t)
    \/ RaceStoreCount(t)
    \/ RaceMalloc(t)
    \/ RaceMemcpy(t)
    \/ RaceInject(t)

SpecRace == InitRace /\ [][NextRace]_vars

\* both threads finished their call and both read the latch as unset
BothSawLatchUnset ==
  \A t \in Threads : pc[t] = "done" /\ ~frame[t].sawInit

\* C8: two threads in the buffer path before any such call has completed can
\* both read the latch as unset; whenever they do, both allocate a block and
\* both store driver_extension_count and driver_extensions, so the snapshot
\* is populated twice and one of the two blocks is referenced by nothing.
C8_RaceDoublePopulation ==
  BothSawLatchUnset =>
    /\ Len(heap) = Cardinality(Threads)
    /\ \A t \in Threads : frame[t].stored /\ frame[t].p \in 1..Len(heap)
    /\ \A t, u \in Threads : t # u => frame[t].p # frame[u].p
    /\ driver_extensions \in {frame[t].p : t \in Threads}
    /\ \E b \in 1..Len(heap) : b # driver_extensions

\* the interleaving exists: both threads done, both saw the latch unset, two
\* blocks allocated, one of them unreferenced
C8_Witness ==
  /\ BothSawLatchUnset
  /\ Len(heap) = 2
  /\ \E b \in 1..Len(heap) : b # driver_extensions

(***************************************************************************)
(* Module open and close (identical in both builds).                       *)
(***************************************************************************)
\* how many OpenDevice and CloseDevice calls one run makes
MaxCalls == 4

\* HWVULKAN_DEVICE_0 and identifiers that are not it
DeviceIds == {"vk0", "vk1", ""}

\* what *device holds before the loader calls open
OutPointers == {"NULL", "stale"}

\* Deleting an object that was not allocated with new is undefined: the
\* allocator aborts the process, or the call returns with the object's
\* storage either untouched or overwritten by the allocator's bookkeeping.
DeleteOutcomes(ptr) ==
  IF ptr = "&mesa_vulkan_device.common"
    THEN {[crashed |-> c, descriptor |-> d] :
            c \in BOOLEAN, d \in {"valid", "corrupt"}}
    ELSE {[crashed |-> FALSE, descriptor |-> hwdev.descriptor]}

\* OpenDevice(module, id, device); ok is what
\* mesa_vulkan::InitializeVulkan() returns
OpenDevice ==
  /\ ~hwdev.crashed
  /\ hwdev.calls < MaxCalls
  /\ \E id \in DeviceIds, ok \in BOOLEAN, out \in OutPointers :
       IF id = "vk0"
         THEN IF ~ok
                THEN /\ last' = [op |-> "OpenDevice", id |-> id, initCalled |-> TRUE,
                                 initOk |-> FALSE, before |-> out, device |-> out,
                                 ret |-> "-ENOENT", pre |-> hwdev]
                     /\ hwdev' = [hwdev EXCEPT !.calls = @ + 1]
                ELSE /\ last' = [op |-> "OpenDevice", id |-> id, initCalled |-> TRUE,
                                 initOk |-> TRUE, before |-> out,
                                 device |-> "&mesa_vulkan_device.common",
                                 ret |-> "0", pre |-> hwdev]
                     /\ hwdev' = [hwdev EXCEPT !.driver = "initialized",
                                               !.held = TRUE, !.calls = @ + 1]
         ELSE /\ last' = [op |-> "OpenDevice", id |-> id, initCalled |-> FALSE,
                          initOk |-> FALSE, before |-> out, device |-> out,
                          ret |-> "-ENOENT", pre |-> hwdev]
              /\ hwdev' = [hwdev EXCEPT !.calls = @ + 1]
  /\ UNCHANGED <<variant, statics, threads>>

\* CloseDevice(dev), dev being the descriptor an earlier OpenDevice handed
\* back: mesa_vulkan::Close(), then delete dev, then return 0
CloseDevice ==
  /\ ~hwdev.crashed
  /\ hwdev.calls < MaxCalls
  /\ hwdev.held
  /\ LET dev == "&mesa_vulkan_device.common"
     IN \E o \in DeleteOutcomes(dev) :
          /\ hwdev' = [hwdev EXCEPT !.driver = "closed",
                                    !.deleted = @ \cup {dev},
                                    !.descriptor = o.descriptor,
                                    !.crashed = o.crashed,
                                    !.held = FALSE,
                                    !.calls = @ + 1]
          /\ last' = [op |-> "CloseDevice", dev |-> dev,
                      ret |-> IF o.crashed THEN "none" ELSE "0", pre |-> hwdev]
  /\ UNCHANGED <<variant, statics, threads>>

InitOpen ==
  /\ variant \in Variants
  /\ StaticsInit
  /\ ThreadsIdle
  /\ last = NoCall

NextOpen == OpenDevice \/ CloseDevice

SpecOpen == InitOpen /\ [][NextOpen]_vars

\* C11: over every sequence of OpenDevice and CloseDevice calls, OpenDevice
\* with the supported identifier and a successful driver init returns 0 and
\* hands back the static descriptor, still valid; with another identifier or
\* a failed init it returns -ENOENT and leaves the output pointer alone;
\* CloseDevice releases the driver and returns 0; and the static descriptor
\* is never passed to a deallocator.
C11_StaticDescriptorIntact ==
  /\ "&mesa_vulkan_device.common" \notin hwdev.deleted
  /\ hwdev.descriptor = "valid"
  /\ ~hwdev.crashed
  /\ last.op = "OpenDevice" =>
       IF last.id = "vk0" /\ last.initOk
         THEN /\ last.ret = "0"
              /\ last.device = "&mesa_vulkan_device.common"
         ELSE /\ last.ret = "-ENOENT"
              /\ last.device = last.before
  /\ last.op = "CloseDevice" =>
       /\ last.ret = "0"
       /\ hwdev.driver = "closed"

====
